---- MODULE Spec2Model ----
(***************************************************************************)
(* A model of src/src/vector.h: RawMemory<T> (a block of uninitialized     *)
(* slots) and Vector<T> (the block plus the number of constructed          *)
(* elements).  Two Vector objects, a and b, live in one program; every     *)
(* public operation of Vector is one action.  The element type T is fixed  *)
(* per program (elemKind) and decides how elements are relocated and which *)
(* element operations may throw.                                           *)
(* RawMemory on its own (two objects, r and s, and a narrow size_t) has a   *)
(* specification of its own, SpecRaw.                                      *)
(***************************************************************************)
EXTENDS Integers, Sequences, FiniteSets, TLC

\* ------------------------------------------------------------------ bounds
MaxCap == 4            \* largest block the model allocates (slots)
MaxCapTwo == 2         \* largest block in the program with two Vectors
SizeBits == 4          \* width of size_t in the programs that use RawMemory alone

\* --------------------------------------------------------------- constants
NULL == 0              \* buffer_ = nullptr
Default == 0           \* a value-initialised element
Unspec == -1           \* a constructed element of unspecified value (moved-from)
Raw == -2              \* an uninitialized slot: no element lives there

\* The values of T the programs use: the container never inspects an element,
\* so two values are enough to tell every element from its neighbours.
Values == {0, 1}
Addrs == {1, 2, 3}     \* a, b and one temporary block are alive at most
Vecs == {"a", "b"}
Raws == {"r", "s"}     \* the RawMemory objects of a program that uses RawMemory alone
Kinds == {"trivial", "nothrow_move", "copy"}

VARIABLES
    elemKind,   \* the element type T: trivial (int), nothrow-movable, or copy-only
    vec,        \* vec[v]: the Vector object v: alive, data_ (buffer_, capacity_), size_
    heap,       \* heap[addr]: the slots of the block at addr; << >> when not allocated
    last,       \* the operation that ran last: its name, arguments and outcome
    pushed,     \* the values pushed so far by a run of PushBack calls on a
    raw,        \* raw[x]: the RawMemory object x: alive, buffer_, capacity_
    rawHeap     \* rawHeap[addr]: the bytes of the block operator new gave at addr

vars == <<elemKind, vec, heap, last, pushed, raw, rawHeap>>

\* ------------------------------------------------------------- element type
\* UninitCopyOrMove's if constexpr: relocation moves when T's move constructor
\* is noexcept (or T cannot be copied), else it copies.
UsesMove == elemKind \in {"trivial", "nothrow_move"}

\* T's copy constructor / copy assignment can throw (never for int).
CopyMayThrow == elemKind # "trivial"

\* T's move constructor / move assignment can throw: a copy-only T "moves" by copying.
MoveMayThrow == elemKind = "copy"

\* T's default constructor can throw (never for int).
DefaultMayThrow == elemKind # "trivial"

\* What a read of slot content x yields: an uninitialized slot yields garbage g.
Read(x, g) == IF x = Raw THEN g ELSE x

\* What is left in a slot whose element was moved from.
MovedSrc(x) == IF elemKind = "nothrow_move" /\ x # Raw THEN Unspec ELSE x

\* ------------------------------------------------------------------- blocks
RawBlock(n) == [i \in 1..n |-> Raw]

\* Number of constructed elements in slots with 0-based index >= from.
LiveFrom(blk, from) == Cardinality({i \in 1..Len(blk) : i > from /\ blk[i] # Raw})

\* std::destroy_n(blk + from, count): the elements' lifetimes end.
DestroyN(blk, from, count) ==
    [i \in 1..Len(blk) |-> IF i > from /\ i <= from + count THEN Raw ELSE blk[i]]

\* std::uninitialized_copy_n(src + from, count, dst + to), all copies succeeding.
UninitCopyN(src, from, count, dst, to, g) ==
    [i \in 1..Len(dst) |->
        IF i > to /\ i <= to + count THEN Read(src[from + (i - to)], g) ELSE dst[i]]

\* The source block after std::uninitialized_move_n(src + from, count, ...).
MovedFromN(src, from, count) ==
    [i \in 1..Len(src) |->
        IF i > from /\ i <= from + count THEN MovedSrc(src[i]) ELSE src[i]]

\* Vector::UninitCopyOrMove(from, count, to): <<source block, target block>>.
UninitCopyOrMove(src, from, count, dst, to, g) ==
    IF UsesMove
    THEN [src |-> MovedFromN(src, from, count),
          dst |-> UninitCopyN(src, from, count, dst, to, g)]
    ELSE [src |-> src,
          dst |-> UninitCopyN(src, from, count, dst, to, g)]

\* ------------------------------------------------------------------ objects
NoVector == [alive |-> FALSE, data_ |-> [buffer_ |-> NULL, capacity_ |-> 0], size_ |-> 0]
EmptyVector == [alive |-> TRUE, data_ |-> [buffer_ |-> NULL, capacity_ |-> 0], size_ |-> 0]

Size(v) == vec[v].size_
Capacity(v) == vec[v].data_.capacity_
GetAddress(v) == vec[v].data_.buffer_

\* The slots of v's block (none when buffer_ is null).
Blk(v) == IF GetAddress(v) = NULL THEN << >> ELSE heap[GetAddress(v)]

\* The elements of v as the caller sees them: slots [0, Size()).
Elems(v) == SubSeq(Blk(v), 1, Size(v))

FreeAddrs == {a \in Addrs : heap[a] = << >>}

\* RawMemory::Swap
RawSwap(x, y) == [x |-> y, y |-> x]

\* sizeof(T) for the element type of the programs that use RawMemory alone (int).
SizeOfT == 4

\* The number of values of size_t: its arithmetic is modulo this.
SizeRange == 2 ^ SizeBits

\* n * sizeof(T) as Allocate computes it, in size_t: the bytes asked of operator new.
AllocBytes(n) == (n * SizeOfT) % SizeRange

\* No block is allocated at an address (a block of 0 bytes is a block).
NoBlock == -1

\* A RawMemory object: not constructed, and default-constructed.
NoRawMemory == [alive |-> FALSE, buffer_ |-> NULL, capacity_ |-> 0]
EmptyRawMemory == [alive |-> TRUE, buffer_ |-> NULL, capacity_ |-> 0]

\* RawMemory::Allocate(n), operator new having returned addr.
Allocate(n, addr) == IF n # 0 THEN addr ELSE NULL

\* RawMemory::RawMemory(size_t capacity)
RawMemoryOp(capacity, addr) ==
    [alive |-> TRUE, buffer_ |-> Allocate(capacity, addr), capacity_ |-> capacity]

\* RawMemory::RawMemory(RawMemory&& other): the new object (buffer_ = nullptr,
\* capacity_ = 0 by the member initialisers) is swapped with other.
RawMoveCtorOp(other) ==
    [this |-> RawSwap(EmptyRawMemory, other).x, other |-> RawSwap(EmptyRawMemory, other).y]

\* RawMemory::operator=(RawMemory&& rhs): Swap(rhs).
RawMoveAssignOp(this, rhs) ==
    [this |-> RawSwap(this, rhs).x, other |-> RawSwap(this, rhs).y]

\* RawMemory::Deallocate of the block at addr (operator delete(nullptr) does nothing).
Deallocate(h, addr) == IF addr = NULL THEN h ELSE [h EXCEPT ![addr] = << >>]

\* The slots of the block a Vector record vv owns in heap h.
BlkOf(vv, h) == IF vv.data_.buffer_ = NULL THEN << >> ELSE h[vv.data_.buffer_]

\* The heap with the block at addr holding blk (nothing lives at the null address).
Put(h, addr, blk) == IF addr = NULL THEN h ELSE [h EXCEPT ![addr] = blk]

\* The outcome of an operation on one Vector: how it ended ("ok", "bad_alloc":
\* operator new threw, "throw": an element operation threw), the branch taken,
\* the Vector and the heap afterwards, and the number of constructed elements
\* whose storage was released or overwritten without their destructor running.
R(res, path, vv, h, leak) == [res |-> res, path |-> path, vv |-> vv, h |-> h, leak |-> leak]

\* Relocation by UninitCopyOrMove in which the k-th construction throws (k = 0:
\* none does): std::uninitialized_copy_n / _move_n destroy what they built.
Relocate(src, from, count, dst, to, g, k) ==
    IF k = 0
    THEN [ok |-> TRUE,
          src |-> UninitCopyOrMove(src, from, count, dst, to, g).src,
          dst |-> UninitCopyOrMove(src, from, count, dst, to, g).dst]
    ELSE [ok |-> FALSE,
          src |-> UninitCopyOrMove(src, from, k - 1, dst, to, g).src,
          dst |-> DestroyN(UninitCopyOrMove(src, from, k - 1, dst, to, g).dst, to, k - 1)]

\* The relocation of count elements can throw at these points (0: nowhere).
RelocateThrows(count) == IF ~UsesMove /\ CopyMayThrow THEN 0..count ELSE {0}

\* Reserve as it would be with destroy_n run on the old elements before the
\* relocation has succeeded.
ReserveOpDestroysFirst(vv, h, n, addr, g, k) ==
    IF n <= vv.data_.capacity_ THEN R("ok", "noop", vv, h, 0)
    ELSE IF addr = NULL THEN R("bad_alloc", "realloc", vv, h, 0)
    ELSE LET r == Relocate(BlkOf(vv, h), 0, vv.size_, RawBlock(n), 0, g, k)
             old == DestroyN(r.src, 0, vv.size_)
         IN IF ~r.ok
            THEN R("throw", "realloc", vv, Put(h, vv.data_.buffer_, old), LiveFrom(r.dst, 0))
            ELSE R("ok", "realloc",
                   [vv EXCEPT !.data_ = [buffer_ |-> addr, capacity_ |-> n]],
                   Deallocate(Put(h, addr, r.dst), vv.data_.buffer_),
                   LiveFrom(old, 0))

\* Reserve as it would be if it emptied the Vector before asking for the new
\* block: a failed allocation then finds the elements gone.
ReserveOpClearsFirst(vv, h, n, addr, g, k) ==
    IF n <= vv.data_.capacity_ THEN R("ok", "noop", vv, h, 0)
    ELSE IF addr = NULL
    THEN R("bad_alloc", "realloc", [vv EXCEPT !.size_ = 0],
           Put(h, vv.data_.buffer_, DestroyN(BlkOf(vv, h), 0, vv.size_)), 0)
    ELSE LET r == Relocate(BlkOf(vv, h), 0, vv.size_, RawBlock(n), 0, g, k)
             old == DestroyN(r.src, 0, vv.size_)
         IN IF ~r.ok
            THEN R("throw", "realloc", vv, Put(h, vv.data_.buffer_, r.src), LiveFrom(r.dst, 0))
            ELSE R("ok", "realloc",
                   [vv EXCEPT !.data_ = [buffer_ |-> addr, capacity_ |-> n]],
                   Deallocate(Put(h, addr, r.dst), vv.data_.buffer_),
                   LiveFrom(old, 0))

\* Reserve as it would be if a request below the capacity gave the spare slots
\* back (as far as the elements allow) instead of returning at once.
ReserveOpShrinks(vv, h, n, addr, g, k) ==
    IF n <= vv.data_.capacity_
    THEN IF n < vv.size_ THEN R("ok", "noop", vv, h, 0)
         ELSE R("ok", "noop",
                [vv EXCEPT !.data_ = [buffer_ |-> IF n = 0 THEN NULL ELSE vv.data_.buffer_,
                                      capacity_ |-> n]],
                IF n = 0 THEN Deallocate(h, vv.data_.buffer_)
                ELSE Put(h, vv.data_.buffer_, SubSeq(BlkOf(vv, h), 1, n)), 0)
    ELSE IF addr = NULL THEN R("bad_alloc", "realloc", vv, h, 0)
    ELSE LET r == Relocate(BlkOf(vv, h), 0, vv.size_, RawBlock(n), 0, g, k)
             old == DestroyN(r.src, 0, vv.size_)
         IN IF ~r.ok
            THEN R("throw", "realloc", vv, Put(h, vv.data_.buffer_, r.src), LiveFrom(r.dst, 0))
            ELSE R("ok", "realloc",
                   [vv EXCEPT !.data_ = [buffer_ |-> addr, capacity_ |-> n]],
                   Deallocate(Put(h, addr, r.dst), vv.data_.buffer_),
                   LiveFrom(old, 0))

\* Reserve as it would be if the relocation stopped one element early.
ReserveOpDropsLast(vv, h, n, addr, g, k) ==
    IF n <= vv.data_.capacity_ THEN R("ok", "noop", vv, h, 0)
    ELSE IF addr = NULL THEN R("bad_alloc", "realloc", vv, h, 0)
    ELSE LET cnt == IF vv.size_ = 0 THEN 0 ELSE vv.size_ - 1
             r == Relocate(BlkOf(vv, h), 0, cnt, RawBlock(n), 0, g, IF k > cnt THEN 0 ELSE k)
             old == DestroyN(r.src, 0, vv.size_)
         IN IF ~r.ok
            THEN R("throw", "realloc", vv, Put(h, vv.data_.buffer_, r.src), LiveFrom(r.dst, 0))
            ELSE R("ok", "realloc",
                   [vv EXCEPT !.data_ = [buffer_ |-> addr, capacity_ |-> n]],
                   Deallocate(Put(h, addr, r.dst), vv.data_.buffer_),
                   LiveFrom(old, 0))

\* Vector::Reserve(new_capacity); addr = NULL: operator new throws bad_alloc.
ReserveOp(vv, h, n, addr, g, k) ==
    IF n <= vv.data_.capacity_ THEN R("ok", "noop", vv, h, 0)
    ELSE IF addr = NULL THEN R("bad_alloc", "realloc", vv, h, 0)
    ELSE LET r == Relocate(BlkOf(vv, h), 0, vv.size_, RawBlock(n), 0, g, k)
             old == DestroyN(r.src, 0, vv.size_)
         IN IF ~r.ok
            THEN R("throw", "realloc", vv, Put(h, vv.data_.buffer_, r.src), LiveFrom(r.dst, 0))
            ELSE R("ok", "realloc",
                   [vv EXCEPT !.data_ = [buffer_ |-> addr, capacity_ |-> n]],
                   Deallocate(Put(h, addr, r.dst), vv.data_.buffer_),
                   LiveFrom(old, 0))

\* std::uninitialized_value_construct_n(blk + from, count) in which the k-th
\* construction throws (k = 0: none): what was built is destroyed again.
ValueConstructN(blk, from, count, k) ==
    IF k = 0
    THEN [i \in 1..Len(blk) |-> IF i > from /\ i <= from + count THEN Default ELSE blk[i]]
    ELSE DestroyN([i \in 1..Len(blk) |->
                      IF i > from /\ i < from + k THEN Default ELSE blk[i]], from, k - 1)

\* Resize as it would be without the call of Reserve: size_ is set whatever the
\* capacity.
ResizeOpNoReserve(vv, h, n, addr, g, k) ==
    IF n < vv.size_
    THEN R("ok", "shrink", [vv EXCEPT !.size_ = n],
           Put(h, vv.data_.buffer_, DestroyN(BlkOf(vv, h), n, vv.size_ - n)), 0)
    ELSE R("ok", IF n = vv.size_ THEN "same" ELSE "within", [vv EXCEPT !.size_ = n], h, 0)

\* Vector::Resize(new_size); k counts the element operations of Reserve first,
\* then the value constructions.
ResizeOp(vv, h, n, addr, g, k) ==
    IF n > vv.data_.capacity_
    THEN LET rs == ReserveOp(vv, h, n, addr, g, IF k <= vv.size_ THEN k ELSE 0)
             kk == IF k > vv.size_ THEN k - vv.size_ ELSE 0
             blk == ValueConstructN(BlkOf(rs.vv, rs.h), vv.size_, n - vv.size_, kk)
         IN IF rs.res # "ok" THEN R(rs.res, "grow", rs.vv, rs.h, rs.leak)
            ELSE IF kk # 0
            THEN R("throw", "grow", rs.vv, Put(rs.h, rs.vv.data_.buffer_, blk), rs.leak)
            ELSE R("ok", "grow", [rs.vv EXCEPT !.size_ = n],
                   Put(rs.h, rs.vv.data_.buffer_, blk), rs.leak)
    ELSE IF n < vv.size_
    THEN R("ok", "shrink", [vv EXCEPT !.size_ = n],
           Put(h, vv.data_.buffer_, DestroyN(BlkOf(vv, h), n, vv.size_ - n)), 0)
    ELSE R("ok", IF n = vv.size_ THEN "same" ELSE "within", [vv EXCEPT !.size_ = n], h, 0)

ResizeThrows(vv, n) ==
    IF n > vv.data_.capacity_
    THEN RelocateThrows(vv.size_)
         \cup (IF DefaultMayThrow THEN (vv.size_ + 1)..n ELSE {})
    ELSE {0}

\* ------------------------------------------------------------------ Emplace
\* The argument of Emplace / Insert / PushBack: "lval": const T& to an object
\* outside the container holding x; "rval": T&& to such an object; "ref":
\* const T& to the container's own element x (v.PushBack(v[x])).
Arg(kind, x) == [kind |-> kind, x |-> x]

\* Constructing a T from the argument can throw.
ArgThrows(arg) == IF arg.kind = "rval" THEN MoveMayThrow ELSE CopyMayThrow

\* The value the new element is constructed with: a "ref" argument is read from
\* the block blk at the moment of construction.
ArgVal(blk, arg, g) == IF arg.kind = "ref" THEN Read(blk[arg.x + 1], g) ELSE arg.x

\* The reallocating branch as it would be with new_capacity = size_ + 1.
EmplaceReallocByOne(old, n, p, arg, g, k) ==
    LET new_capacity == n + 1
        r1 == Relocate(old, 0, p, RawBlock(new_capacity), 0, g,
                       IF k >= 1 /\ k <= p THEN k ELSE 0)
        b2 == [r1.dst EXCEPT ![p + 1] = ArgVal(r1.src, arg, g)]
        r3 == Relocate(r1.src, p, n - p, b2, p + 1, g,
                       IF k > p + 1 THEN k - (p + 1) ELSE 0)
    IN IF k >= 1 /\ k <= p + 1 THEN [ok |-> FALSE, old |-> r1.src, new |-> r1.dst]
       ELSE IF k > p + 1 THEN [ok |-> FALSE, old |-> r3.src, new |-> r3.dst]
       ELSE [ok |-> TRUE, old |-> DestroyN(r3.src, 0, n), new |-> r3.dst]

\* Emplace, reallocating branch (lines 237-250), on the old block of n elements:
\* the k-th element operation throws (k = 0: none), counting the prefix
\* relocations 1..p, the construction p+1, the suffix relocations p+2..n+1.
\* <<ok, old block, new block>>.
EmplaceRealloc(old, n, p, arg, g, k) ==
    LET new_capacity == IF n = 0 THEN 1 ELSE n * 2
        r1 == Relocate(old, 0, p, RawBlock(new_capacity), 0, g,
                       IF k >= 1 /\ k <= p THEN k ELSE 0)
        b2 == [r1.dst EXCEPT ![p + 1] = ArgVal(r1.src, arg, g)]
        r3 == Relocate(r1.src, p, n - p, b2, p + 1, g,
                       IF k > p + 1 THEN k - (p + 1) ELSE 0)
    IN IF k >= 1 /\ k <= p + 1 THEN [ok |-> FALSE, old |-> r1.src, new |-> r1.dst]
       ELSE IF k > p + 1 THEN [ok |-> FALSE, old |-> r3.src, new |-> r3.dst]
       ELSE [ok |-> TRUE, old |-> DestroyN(r3.src, 0, n), new |-> r3.dst]

\* The shift as it would be with std::move in place of std::move_backward: the
\* ranges overlap, and going forward every slot takes what slot p held.
MoveForward(blk, p, n, j, g) ==
    [i \in 1..Len(blk) |->
        IF i - 1 >= p + 1 /\ i - 1 <= p + j THEN Read(blk[p + 1], g) ELSE blk[i]]

\* std::move_backward(blk + p, blk + n - 1, blk + n) after j of its n-1-p
\* assignments: slot n-1 takes slot n-2, then slot n-2 takes slot n-3, ...
MoveBackward(blk, p, n, j, g) ==
    [i \in 1..Len(blk) |->
        IF i - 1 >= n - j /\ i - 1 <= n - 1 THEN Read(blk[i - 1], g)
        ELSE IF j >= 1 /\ i - 1 = n - 1 - j THEN MovedSrc(blk[i])
        ELSE blk[i]]

\* Emplace with spare capacity before end() (lines 254-262): the k-th element
\* operation throws, counting T buff{args} as 1, the construction of the last
\* element in slot n as 2, the assignments of move_backward as 3..n-p+1 and
\* *place_emplace = std::move(buff) as n-p+2.  <<ok, block>>.
EmplaceMiddle(blk, n, p, arg, g, k) ==
    LET buff == ArgVal(blk, arg, g)
        b2 == [blk EXCEPT ![n + 1] = Read(blk[n], g), ![n] = MovedSrc(blk[n])]
        m == n - 1 - p
        b3 == MoveBackward(b2, p, n, IF k >= 3 /\ k <= m + 2 THEN k - 3 ELSE m, g)
    IN IF k = 1 \/ k = 2 THEN [ok |-> FALSE, blk |-> blk]
       ELSE IF k >= 3 THEN [ok |-> FALSE, blk |-> b3]
       ELSE [ok |-> TRUE, blk |-> [b3 EXCEPT ![p + 1] = buff]]

\* Emplace with spare capacity at end() (lines 263-266).
EmplaceEnd(blk, n, arg, g, k) ==
    IF k = 1 THEN [ok |-> FALSE, blk |-> blk]
    ELSE [ok |-> TRUE, blk |-> [blk EXCEPT ![n + 1] = ArgVal(blk, arg, g)]]

\* Vector::Emplace(pos, args...) with pos = begin() + p.
EmplaceOp(vv, h, p, arg, addr, g, k) ==
    LET n == vv.size_
        blk == BlkOf(vv, h)
    IN IF vv.data_.capacity_ < n + 1 \/ vv.data_.capacity_ = n
       THEN IF addr = NULL THEN R("bad_alloc", "realloc", vv, h, 0)
            ELSE LET e == EmplaceRealloc(blk, n, p, arg, g, k)
                 IN IF ~e.ok
                    THEN R("throw", "realloc", vv, Put(h, vv.data_.buffer_, e.old),
                           LiveFrom(e.new, 0))
                    ELSE R("ok", "realloc",
                           [vv EXCEPT !.data_ = [buffer_ |-> addr, capacity_ |-> Len(e.new)],
                                      !.size_ = n + 1],
                           Deallocate(Put(h, addr, e.new), vv.data_.buffer_),
                           LiveFrom(e.old, 0))
       ELSE IF p < n
       THEN LET e == EmplaceMiddle(blk, n, p, arg, g, k)
                over == IF k # 1 /\ k # 2 /\ blk[n + 1] # Raw THEN 1 ELSE 0
            IN IF ~e.ok THEN R("throw", "middle", vv, Put(h, vv.data_.buffer_, e.blk), over)
               ELSE R("ok", "middle", [vv EXCEPT !.size_ = n + 1],
                      Put(h, vv.data_.buffer_, e.blk), over)
       ELSE LET e == EmplaceEnd(blk, n, arg, g, k)
                over == IF k # 1 /\ blk[n + 1] # Raw THEN 1 ELSE 0
            IN IF ~e.ok THEN R("throw", "end", vv, h, 0)
               ELSE R("ok", "end", [vv EXCEPT !.size_ = n + 1],
                      Put(h, vv.data_.buffer_, e.blk), over)

\* The element operations of Emplace(p, arg) that can throw.
EmplaceThrows(vv, p, arg) ==
    LET n == vv.size_
    IN IF vv.data_.capacity_ = n
       THEN {0} \cup (IF ArgThrows(arg) THEN {p + 1} ELSE {})
                \cup (RelocateThrows(n + 1) \ {p + 1})
       ELSE IF p < n
       THEN {0} \cup (IF ArgThrows(arg) THEN {1} ELSE {})
                \cup (IF MoveMayThrow THEN 2..(n - p + 2) ELSE {})
       ELSE {0} \cup (IF ArgThrows(arg) THEN {1} ELSE {})

\* The arguments a caller can pass to Emplace on vv.
Args(vv) ==
    {Arg(kind, x) : kind \in {"lval", "rval"}, x \in Values}
        \cup {Arg("ref", i) : i \in 0..(vv.size_ - 1)}

\* -------------------------------------------------------------------- Erase
\* The shift of Erase as it would be if it stopped one element early.
ShiftLeftShort(blk, p, n, j, g) ==
    [i \in 1..Len(blk) |->
        IF i - 1 >= p /\ i - 1 < p + j - 1 THEN Read(blk[i + 1], g) ELSE blk[i]]

\* The shift of Erase (lines 287-294) after j of its n-1-p assignments: slot p
\* takes slot p+1, then slot p+1 takes slot p+2, ...
ShiftLeft(blk, p, n, j, g) ==
    [i \in 1..Len(blk) |->
        IF i - 1 >= p /\ i - 1 < p + j THEN Read(blk[i + 1], g)
        ELSE IF UsesMove /\ j >= 1 /\ i - 1 = p + j THEN MovedSrc(blk[i])
        ELSE blk[i]]

\* Vector::PopBack()
PopBackOp(vv, h) ==
    R("ok", "none", [vv EXCEPT !.size_ = vv.size_ - 1],
      Put(h, vv.data_.buffer_, DestroyN(BlkOf(vv, h), vv.size_ - 1, 1)), 0)

\* Vector::Erase(pos) with pos = begin() + p; the k-th assignment of the shift
\* throws (k = 0: none), and then PopBack is not reached.
EraseOp(vv, h, p, g, k) ==
    LET n == vv.size_
        shifted == ShiftLeft(BlkOf(vv, h), p, n, IF k = 0 THEN n - 1 - p ELSE k - 1, g)
        hh == Put(h, vv.data_.buffer_, shifted)
    IN IF k # 0 THEN R("throw", "none", vv, hh, 0)
       ELSE PopBackOp(vv, hh)

EraseThrows(vv, p) ==
    IF ~UsesMove /\ CopyMayThrow THEN 0..(vv.size_ - 1 - p) ELSE {0}

\* ------------------------------------------------- copies and constructors
\* std::uninitialized_copy_n(src + from, count, dst + to) in which the k-th copy
\* throws (k = 0: none): the copies made so far are destroyed.
UninitCopyNThrow(src, from, count, dst, to, g, k) ==
    IF k = 0 THEN UninitCopyN(src, from, count, dst, to, g)
    ELSE DestroyN(UninitCopyN(src, from, k - 1, dst, to, g), to, k - 1)

\* copy_n as it would be if it stopped one element early.
CopyNShort(src, count, dst, g) ==
    [i \in 1..Len(dst) |-> IF i < count THEN Read(src[i], g) ELSE dst[i]]

\* std::copy_n(src, count, dst): the first count elements of dst are assigned.
CopyN(src, count, dst, g) ==
    [i \in 1..Len(dst) |-> IF i <= count THEN Read(src[i], g) ELSE dst[i]]

Min(x, y) == IF x <= y THEN x ELSE y

\* Vector::Vector(size_t size): vv is NoVector when the constructor throws.
SizedCtorOp(h, n, addr, k) ==
    IF n # 0 /\ addr = NULL THEN R("bad_alloc", "none", NoVector, h, 0)
    ELSE LET blk == ValueConstructN(RawBlock(n), 0, n, k)
         IN IF k # 0 THEN R("throw", "none", NoVector, h, LiveFrom(blk, 0))
            ELSE R("ok", "none",
                   [alive |-> TRUE,
                    data_ |-> [buffer_ |-> IF n = 0 THEN NULL ELSE addr, capacity_ |-> n],
                    size_ |-> n],
                   Put(h, IF n = 0 THEN NULL ELSE addr, blk), 0)

\* The copy constructor as it would be if it took over other's block instead
\* of copying into one of its own.
CopyCtorOpShallow(other, h, addr, g, k) ==
    IF other.size_ # 0 /\ addr = NULL THEN R("bad_alloc", "none", NoVector, h, 0)
    ELSE IF k # 0 THEN R("throw", "none", NoVector, h, 0)
    ELSE R("ok", "none",
           [alive |-> TRUE,
            data_ |-> [buffer_ |-> IF other.size_ = 0 THEN NULL ELSE other.data_.buffer_,
                       capacity_ |-> other.size_],
            size_ |-> other.size_], h, 0)

\* Vector::Vector(const Vector& other)
CopyCtorOp(other, h, addr, g, k) ==
    LET n == other.size_
    IN IF n # 0 /\ addr = NULL THEN R("bad_alloc", "none", NoVector, h, 0)
       ELSE LET blk == UninitCopyNThrow(BlkOf(other, h), 0, n, RawBlock(n), 0, g, k)
            IN IF k # 0 THEN R("throw", "none", NoVector, h, LiveFrom(blk, 0))
               ELSE R("ok", "none",
                      [alive |-> TRUE,
                       data_ |-> [buffer_ |-> IF n = 0 THEN NULL ELSE addr, capacity_ |-> n],
                       size_ |-> n],
                      Put(h, IF n = 0 THEN NULL ELSE addr, blk), 0)

\* Vector::~Vector(): destroy_n(data_, size_), then ~RawMemory releases the block.
DtorOp(vv, h) ==
    R("ok", "none", NoVector, Deallocate(h, vv.data_.buffer_),
      LiveFrom(DestroyN(BlkOf(vv, h), 0, vv.size_), 0))

\* Copy assignment as it would be with size_ = rhs.size_ written before the
\* elements are copied in place.
CopyAssignOpSizeFirst(vv, rhs, h, addr, g, k) ==
    LET blk == BlkOf(vv, h)
        rb == BlkOf(rhs, h)
        m == Min(rhs.size_, vv.size_)
        early == [vv EXCEPT !.size_ = rhs.size_]
    IN IF vv.data_.capacity_ >= rhs.size_
       THEN IF k >= 1 /\ k <= m
            THEN R("throw", "inplace", early, Put(h, vv.data_.buffer_, CopyN(rb, k - 1, blk, g)), 0)
            ELSE LET b1 == CopyN(rb, m, blk, g)
                     b2 == IF vv.size_ > rhs.size_
                           THEN DestroyN(b1, rhs.size_, vv.size_ - rhs.size_)
                           ELSE UninitCopyNThrow(rb, vv.size_, rhs.size_ - vv.size_,
                                                 b1, vv.size_, g,
                                                 IF k = 0 THEN 0 ELSE k - m)
                 IN IF k # 0 THEN R("throw", "inplace", early, Put(h, vv.data_.buffer_, b2), 0)
                    ELSE R("ok", "inplace", early, Put(h, vv.data_.buffer_, b2), 0)
       ELSE LET c == CopyCtorOp(rhs, h, addr, g, k)
            IN IF c.res # "ok" THEN R(c.res, "realloc", vv, h, c.leak)
               ELSE LET d == DtorOp(vv, c.h)
                    IN R("ok", "realloc", c.vv, d.h, d.leak)

\* Vector::operator=(const Vector& rhs) with this # &rhs; the k-th element copy
\* throws (k = 0: none), counting the assignments of copy_n first.
CopyAssignOp(vv, rhs, h, addr, g, k) ==
    LET blk == BlkOf(vv, h)
        rb == BlkOf(rhs, h)
        m == Min(rhs.size_, vv.size_)
    IN IF vv.data_.capacity_ >= rhs.size_
       THEN IF k >= 1 /\ k <= m
            THEN R("throw", "inplace", vv, Put(h, vv.data_.buffer_, CopyN(rb, k - 1, blk, g)), 0)
            ELSE LET b1 == CopyN(rb, m, blk, g)
                     b2 == IF vv.size_ > rhs.size_
                           THEN DestroyN(b1, rhs.size_, vv.size_ - rhs.size_)
                           ELSE UninitCopyNThrow(rb, vv.size_, rhs.size_ - vv.size_,
                                                 b1, vv.size_, g,
                                                 IF k = 0 THEN 0 ELSE k - m)
                 IN IF k # 0 THEN R("throw", "inplace", vv, Put(h, vv.data_.buffer_, b2), 0)
                    ELSE R("ok", "inplace", [vv EXCEPT !.size_ = rhs.size_],
                           Put(h, vv.data_.buffer_, b2), 0)
       ELSE LET c == CopyCtorOp(rhs, h, addr, g, k)
            IN IF c.res # "ok" THEN R(c.res, "realloc", vv, h, c.leak)
               ELSE LET d == DtorOp(vv, c.h)
                    IN R("ok", "realloc", c.vv, d.h, d.leak)

\* Swap as it would be without std::swap(size_, other.size_).
SwapOpDataOnly(vv, other) ==
    [this |-> [vv EXCEPT !.data_ = RawSwap(vv.data_, other.data_).x],
     other |-> [other EXCEPT !.data_ = RawSwap(vv.data_, other.data_).y]]

\* Vector::Swap: the two Vectors, this and other, afterwards.
SwapOp(vv, other) ==
    [this |-> [vv EXCEPT !.data_ = RawSwap(vv.data_, other.data_).x,
                         !.size_ = other.size_],
     other |-> [other EXCEPT !.data_ = RawSwap(vv.data_, other.data_).y,
                             !.size_ = vv.size_]]

\* ------------------------------------------------------------------ actions
\* The call that has just ended and whose outcome the caller has not looked at
\* yet: the operation, the Vector it ran on (this), the other Vector of a binary
\* operation, the numeric argument (a position or a size), the argument of
\* Emplace, how it ended, the branch taken, and how many constructed elements
\* lost their storage without being destroyed.
Op(name, v, w, n, arg, res, path, leak) ==
    [op |-> name, v |-> v, w |-> w, n |-> n, arg |-> arg,
     res |-> res, path |-> path, leak |-> leak]

NoArg == Arg("none", 0)

\* No call is pending: the caller is between two operations.
Idle == Op("idle", "a", "a", 0, NoArg, "ok", "none", 0)

Init ==
    /\ elemKind \in Kinds
    /\ vec = [v \in Vecs |-> IF v = "a" THEN EmptyVector ELSE NoVector]
    /\ heap = [a \in Addrs |-> << >>]
    /\ last = Idle
    /\ pushed = << >>
    /\ raw = [x \in Raws |-> NoRawMemory]
    /\ rawHeap = [a \in Addrs |-> NoBlock]

\* Garbage values a read of vv's elements can yield: any, when a slot below
\* size_ is uninitialized; irrelevant otherwise.
Garbage(vv, h) ==
    IF \E i \in 1..vv.size_ : BlkOf(vv, h)[i] = Raw THEN Values ELSE {Default}

\* operator new: the allocator hands out the lowest free address.
NewAddr == CHOOSE a \in FreeAddrs : \A b \in FreeAddrs : a <= b

\* What operator new can answer to a request: an address, or NULL for
\* std::bad_alloc.  An operation that allocates nothing gets NULL.
Alloc(needed) == IF needed THEN {NewAddr, NULL} ELSE {NULL}

\* The operation's outcome r becomes the state of Vector v.
Commit(v, r, name, w, n, arg) ==
    /\ vec' = [vec EXCEPT ![v] = r.vv]
    /\ heap' = r.h
    /\ last' = Op(name, v, w, n, arg, r.res, r.path, r.leak)
    /\ UNCHANGED elemKind

Construct(v) ==
    /\ last = Idle
    /\ ~vec[v].alive
    /\ Commit(v, R("ok", "none", EmptyVector, heap, 0), "Vector", v, 0, NoArg)
    /\ UNCHANGED <<pushed, raw, rawHeap>>

ConstructSized(v, n) ==
    /\ last = Idle
    /\ ~vec[v].alive
    /\ \E addr \in Alloc(n # 0), k \in (IF DefaultMayThrow THEN 0..n ELSE {0}) :
          Commit(v, SizedCtorOp(heap, n, addr, k), "VectorSized", v, n, NoArg)
    /\ UNCHANGED <<pushed, raw, rawHeap>>

ConstructCopy(v, w) ==
    /\ last = Idle
    /\ ~vec[v].alive /\ vec[w].alive
    /\ \E addr \in Alloc(Size(w) # 0), g \in Garbage(vec[w], heap),
          k \in (IF CopyMayThrow THEN 0..Size(w) ELSE {0}) :
          Commit(v, CopyCtorOp(vec[w], heap, addr, g, k), "VectorCopy", w, 0, NoArg)
    /\ UNCHANGED <<pushed, raw, rawHeap>>

\* Vector(Vector&& other): a default-constructed Vector swapped with other.
ConstructMove(v, w) ==
    /\ last = Idle
    /\ ~vec[v].alive /\ vec[w].alive
    /\ vec' = [vec EXCEPT ![v] = SwapOp(EmptyVector, vec[w]).this,
                          ![w] = SwapOp(EmptyVector, vec[w]).other]
    /\ last' = Op("VectorMove", v, w, 0, NoArg, "ok", "none", 0)
    /\ UNCHANGED <<elemKind, heap, pushed, raw, rawHeap>>

Destroy(v) ==
    /\ last = Idle
    /\ vec[v].alive
    /\ Commit(v, DtorOp(vec[v], heap), "~Vector", v, 0, NoArg)
    /\ UNCHANGED <<pushed, raw, rawHeap>>

CopyAssign(v, w) ==
    /\ last = Idle
    /\ vec[v].alive /\ vec[w].alive
    /\ IF v = w
       THEN Commit(v, R("ok", "self", vec[v], heap, 0), "CopyAssign", w, 0, NoArg)
       ELSE \E addr \in Alloc(Capacity(v) < Size(w)), g \in Garbage(vec[w], heap),
               k \in (IF CopyMayThrow THEN 0..Size(w) ELSE {0}) :
               Commit(v, CopyAssignOp(vec[v], vec[w], heap, addr, g, k), "CopyAssign", w, 0, NoArg)
    /\ UNCHANGED <<pushed, raw, rawHeap>>

Swap(v, w) ==
    /\ last = Idle
    /\ vec[v].alive /\ vec[w].alive
    /\ vec' = [x \in Vecs |-> IF x = w THEN SwapOp(vec[v], vec[w]).other
                              ELSE IF x = v THEN SwapOp(vec[v], vec[w]).this
                              ELSE vec[x]]
    /\ last' = Op("Swap", v, w, 0, NoArg, "ok", "none", 0)
    /\ UNCHANGED <<elemKind, heap, pushed, raw, rawHeap>>

\* operator=(Vector&& rhs) is Swap(rhs).
MoveAssign(v, w) ==
    /\ last = Idle
    /\ vec[v].alive /\ vec[w].alive
    /\ vec' = [x \in Vecs |-> IF x = w THEN SwapOp(vec[v], vec[w]).other
                              ELSE IF x = v THEN SwapOp(vec[v], vec[w]).this
                              ELSE vec[x]]
    /\ last' = Op("MoveAssign", v, w, 0, NoArg, "ok", "none", 0)
    /\ UNCHANGED <<elemKind, heap, pushed, raw, rawHeap>>

Reserve(v, n) ==
    /\ last = Idle
    /\ vec[v].alive
    /\ \E addr \in Alloc(n > Capacity(v)), g \in Garbage(vec[v], heap),
          k \in (IF n > Capacity(v) THEN RelocateThrows(Size(v)) ELSE {0}) :
          Commit(v, ReserveOp(vec[v], heap, n, addr, g, k), "Reserve", v, n, NoArg)
    /\ UNCHANGED <<pushed, raw, rawHeap>>

Resize(v, n) ==
    /\ last = Idle
    /\ vec[v].alive
    /\ \E addr \in Alloc(n > Capacity(v)), g \in Garbage(vec[v], heap),
          k \in ResizeThrows(vec[v], n) :
          Commit(v, ResizeOp(vec[v], heap, n, addr, g, k), "Resize", v, n, NoArg)
    /\ UNCHANGED <<pushed, raw, rawHeap>>

\* Emplace(begin() + p, arg) and Insert(begin() + p, value)
Emplace(v, p, arg) ==
    /\ last = Idle
    /\ vec[v].alive
    /\ p <= Size(v)
    /\ \E addr \in Alloc(Capacity(v) = Size(v)), g \in Garbage(vec[v], heap),
          k \in EmplaceThrows(vec[v], p, arg) :
          Commit(v, EmplaceOp(vec[v], heap, p, arg, addr, g, k), "Emplace", v, p, arg)
    /\ UNCHANGED <<pushed, raw, rawHeap>>

\* PushBack(value) and EmplaceBack(args...): Emplace(end(), ...)
PushBack(v, arg) ==
    /\ last = Idle
    /\ vec[v].alive
    /\ \E addr \in Alloc(Capacity(v) = Size(v)), g \in Garbage(vec[v], heap),
          k \in EmplaceThrows(vec[v], Size(v), arg) :
          Commit(v, EmplaceOp(vec[v], heap, Size(v), arg, addr, g, k), "PushBack", v, Size(v), arg)
    /\ UNCHANGED <<pushed, raw, rawHeap>>

\* PushBack on the Vector a with the pushed values kept in a log: a call that
\* throws pushes nothing.
LoggedPushBack(arg) ==
    /\ last = Idle
    /\ vec["a"].alive
    /\ \E addr \in Alloc(Capacity("a") = Size("a")), g \in Garbage(vec["a"], heap),
          k \in EmplaceThrows(vec["a"], Size("a"), arg) :
          /\ Commit("a", EmplaceOp(vec["a"], heap, Size("a"), arg, addr, g, k),
                    "PushBack", "a", Size("a"), arg)
          /\ pushed' = IF last'.res = "ok"
                       THEN Append(pushed, ArgVal(Blk("a"), arg, g))
                       ELSE pushed
    /\ UNCHANGED <<raw, rawHeap>>

\* Erase(begin() + p); precondition: p < Size().
Erase(v, p) ==
    /\ last = Idle
    /\ vec[v].alive
    /\ p < Size(v)
    /\ \E g \in Garbage(vec[v], heap), k \in EraseThrows(vec[v], p) :
          Commit(v, EraseOp(vec[v], heap, p, g, k), "Erase", v, p, NoArg)
    /\ UNCHANGED <<pushed, raw, rawHeap>>

\* PopBack(); precondition: Size() > 0.
PopBack(v) ==
    /\ last = Idle
    /\ vec[v].alive
    /\ Size(v) > 0
    /\ Commit(v, PopBackOp(vec[v], heap), "PopBack", v, 0, NoArg)
    /\ UNCHANGED <<pushed, raw, rawHeap>>

\* The caller takes note of the outcome of the call and goes on.
Return ==
    /\ last # Idle
    /\ last' = Idle
    /\ UNCHANGED <<elemKind, vec, heap, pushed, raw, rawHeap>>

\* ------------------------------------------------- RawMemory on its own
\* operator new in the programs that use RawMemory alone: the lowest free address.
NewRawAddr == CHOOSE a \in Addrs : rawHeap[a] = NoBlock /\ \A b \in Addrs : rawHeap[b] = NoBlock => a <= b

\* The outcome of a RawMemory operation on x (and y) becomes the state.
RawCommit(objs, h, name, x, y, n, res) ==
    /\ raw' = objs
    /\ rawHeap' = h
    /\ last' = Op(name, x, y, n, NoArg, res, "none", 0)
    /\ UNCHANGED <<elemKind, vec, heap, pushed>>

\* RawMemory x;
RawConstruct(x) ==
    /\ last = Idle
    /\ ~raw[x].alive
    /\ RawCommit([raw EXCEPT ![x] = EmptyRawMemory], rawHeap, "RawMemory", x, x, 0, "ok")

\* RawMemory x(n); operator new is reached only for n # 0, and can throw.
RawConstructSized(x, n) ==
    /\ last = Idle
    /\ ~raw[x].alive
    /\ \E addr \in (IF n # 0 THEN {NewRawAddr, NULL} ELSE {NULL}) :
          IF n # 0 /\ addr = NULL
          THEN RawCommit(raw, rawHeap, "RawMemorySized", x, x, n, "bad_alloc")
          ELSE RawCommit([raw EXCEPT ![x] = RawMemoryOp(n, addr)],
                         IF n # 0 THEN [rawHeap EXCEPT ![addr] = AllocBytes(n)] ELSE rawHeap,
                         "RawMemorySized", x, x, n, "ok")

\* RawMemory x(std::move(y));
RawMoveConstruct(x, y) ==
    /\ last = Idle
    /\ ~raw[x].alive /\ raw[y].alive
    /\ RawCommit([raw EXCEPT ![x] = RawMoveCtorOp(raw[y]).this,
                             ![y] = RawMoveCtorOp(raw[y]).other],
                 rawHeap, "RawMove", x, y, 0, "ok")

\* x = std::move(y);
RawMoveAssign(x, y) ==
    /\ last = Idle
    /\ raw[x].alive /\ raw[y].alive
    /\ RawCommit([z \in Raws |-> IF z = y THEN RawMoveAssignOp(raw[x], raw[y]).other
                                 ELSE IF z = x THEN RawMoveAssignOp(raw[x], raw[y]).this
                                 ELSE raw[z]],
                 rawHeap, "RawMoveAssign", x, y, 0, "ok")

\* x.Swap(y);
RawSwapping(x, y) ==
    /\ last = Idle
    /\ raw[x].alive /\ raw[y].alive
    /\ RawCommit([z \in Raws |-> IF z = y THEN RawSwap(raw[x], raw[y]).y
                                 ELSE IF z = x THEN RawSwap(raw[x], raw[y]).x
                                 ELSE raw[z]],
                 rawHeap, "RawSwap", x, y, 0, "ok")

\* ~RawMemory(): Deallocate(buffer_).
RawDestroy(x) ==
    /\ last = Idle
    /\ raw[x].alive
    /\ RawCommit([raw EXCEPT ![x] = NoRawMemory],
                 IF raw[x].buffer_ = NULL THEN rawHeap
                 ELSE [rawHeap EXCEPT ![raw[x].buffer_] = NoBlock],
                 "~RawMemory", x, x, 0, "ok")

\* The model allocates no block of more than cap slots: a growing Emplace is
\* taken only when the doubled capacity fits.
Fits(v, cap) == Capacity(v) = Size(v) => (IF Size(v) = 0 THEN 1 ELSE Size(v) * 2) <= cap

\* The operations of one Vector.
One(v, cap) ==
    \/ Construct(v)
    \/ \E n \in 0..cap : ConstructSized(v, n)
    \/ Destroy(v)
    \/ \E n \in 0..cap : Reserve(v, n)
    \/ \E n \in 0..cap : Resize(v, n)
    \/ \E p \in 0..cap : \E arg \in Args(vec[v]) : Fits(v, cap) /\ Emplace(v, p, arg)
    \/ \E arg \in Args(vec[v]) : Fits(v, cap) /\ PushBack(v, arg)
    \/ \E p \in 0..cap : Erase(v, p)
    \/ PopBack(v)

\* The operations between two Vectors.
Two(v, w) ==
    \/ ConstructCopy(v, w)
    \/ ConstructMove(v, w)
    \/ CopyAssign(v, w)
    \/ MoveAssign(v, w)
    \/ Swap(v, w)

\* A program with one Vector, a.
Next == One("a", MaxCap) \/ Return

Spec == Init /\ [][Next]_vars

\* A program with two Vectors, a and b, of at most MaxCapTwo slots each.
NextTwo ==
    \/ \E v \in Vecs : One(v, MaxCapTwo)
    \/ \E v, w \in Vecs : Two(v, w)
    \/ Return

SpecTwo == Init /\ [][NextTwo]_vars

\* A program that starts with the empty Vector a and only calls PushBack.
NextPush ==
    \/ \E arg \in Args(vec["a"]) : Fits("a", MaxCap) /\ LoggedPushBack(arg)
    \/ Return

SpecPush == Init /\ [][NextPush]_vars

\* A program with two RawMemory<int> objects, r and s, and every size_t as the
\* requested capacity.
NextRaw ==
    \/ \E x \in Raws : RawConstruct(x)
    \/ \E x \in Raws : \E n \in 0..(SizeRange - 1) : RawConstructSized(x, n)
    \/ \E x, y \in Raws : RawMoveConstruct(x, y)
    \/ \E x, y \in Raws : RawMoveAssign(x, y)
    \/ \E x, y \in Raws : RawSwapping(x, y)
    \/ \E x \in Raws : RawDestroy(x)
    \/ Return

SpecRaw == Init /\ [][NextRaw]_vars

\* ------------------------------------------------------------- consistency
\* The model's bookkeeping: capacity_ is the length of the block at buffer_,
\* distinct Vectors own distinct blocks, and only owned blocks are allocated.
TypeOK ==
    /\ elemKind \in Kinds
    /\ \A v \in Vecs :
          /\ Capacity(v) = Len(Blk(v))
          /\ (GetAddress(v) = NULL) = (Capacity(v) = 0)
          /\ \A i \in 1..Capacity(v) : Blk(v)[i] \in Values \cup {Unspec, Raw}
    /\ \A v, w \in Vecs : v # w /\ GetAddress(v) # NULL => GetAddress(v) # GetAddress(w)
    /\ \A a \in Addrs : heap[a] # << >> => \E v \in Vecs : GetAddress(v) = a
    /\ \A x \in Raws : (raw[x].buffer_ = NULL) = (raw[x].capacity_ = 0)
    /\ \A a \in Addrs : rawHeap[a] # NoBlock => \E x \in Raws : raw[x].buffer_ = a

\* ------------------------------------------------------------------ claims
\* The Vector of the step's operation after the step.
SizeAfter(v) == vec'[v].size_
CapacityAfter(v) == vec'[v].data_.capacity_
BlkAfter(v) == BlkOf(vec'[v], heap')
ElemsAfter(v) == SubSeq(BlkAfter(v), 1, SizeAfter(v))

\* The step is a call of Emplace, Insert, PushBack or EmplaceBack.
EmplaceStep == last'.op \in {"Emplace", "PushBack"}

\* C1: in every state, each Vector's slots [0, Size()) hold a constructed
\* element and its slots [Size(), Capacity()) hold none.
C1_SlotsMatchSize ==
    \A v \in Vecs : \A i \in 1..Capacity(v) : (i <= Size(v)) = (Blk(v)[i] # Raw)

\* C2: Resize(n) with Size() < n <= Capacity() sets Size() to n, leaves the
\* elements [0, old size) as they were and value-constructs (0 for integers)
\* every slot in [old size, n).
C2_ResizeWithinConstructs ==
    [][(/\ last'.op = "Resize" /\ last'.res = "ok"
        /\ Size(last'.v) < last'.n /\ last'.n <= Capacity(last'.v))
       => /\ SizeAfter(last'.v) = last'.n
          /\ \A i \in 1..Size(last'.v) : BlkAfter(last'.v)[i] = Blk(last'.v)[i]
          /\ \A i \in (Size(last'.v) + 1)..last'.n : BlkAfter(last'.v)[i] = Default]_vars

\* C3: an Emplace on a full Vector that throws (relocation by copy or by
\* non-throwing move) leaves size, capacity and every element value as before.
C3_FullEmplaceStrong ==
    [][(EmplaceStep /\ last'.path = "realloc" /\ last'.res = "throw")
       => /\ SizeAfter(last'.v) = Size(last'.v)
          /\ CapacityAfter(last'.v) = Capacity(last'.v)
          /\ ElemsAfter(last'.v) = Elems(last'.v)]_vars

\* C4: when the reallocating Emplace throws, every element already constructed
\* in the new storage is destroyed before that storage is released, and the
\* original storage is as it was.
C4_FullEmplaceNoLeak ==
    [][(EmplaceStep /\ last'.path = "realloc" /\ last'.res = "throw")
       => /\ last'.leak = 0
          /\ GetAddress(last'.v) = vec'[last'.v].data_.buffer_
          /\ BlkAfter(last'.v) = Blk(last'.v)]_vars

\* C5: an element copy that throws during Reserve(n) with n > Capacity(), or
\* during copy assignment with Capacity() < rhs.Size(), leaves the target's
\* size, capacity, storage and element values as before the call.
C5_CopyThrowKeepsTarget ==
    [][(/\ last'.res = "throw"
        /\ \/ last'.op = "Reserve"
           \/ last'.op = "CopyAssign" /\ last'.path = "realloc")
       => /\ vec'[last'.v] = vec[last'.v]
          /\ BlkAfter(last'.v) = Blk(last'.v)]_vars

\* C5, reached: a copy assignment into a non-empty Vector of too small a
\* capacity has thrown while copying.
C5_Witness ==
    /\ last.op = "CopyAssign" /\ last.path = "realloc" /\ last.res = "throw"
    /\ Size(last.v) > 0

\* C6 as stated: move construction and move assignment copy no element and
\* leave the moved-from Vector with Size() = 0 and Capacity() = 0.
C6_MovedFromIsEmpty ==
    [][(last'.op \in {"VectorMove", "MoveAssign"})
       => /\ heap' = heap
          /\ SizeAfter(last'.w) = 0
          /\ CapacityAfter(last'.w) = 0]_vars

\* C6 as amended: move construction and move assignment hand the source's
\* storage and size to the target without allocating or writing any block;
\* move construction leaves the source with Size() = 0 and Capacity() = 0, and
\* move assignment leaves in the source what the target held before.
C6_MoveTransfers ==
    [][(last'.op \in {"VectorMove", "MoveAssign"})
       => /\ heap' = heap
          /\ vec'[last'.v].data_ = vec[last'.w].data_
          /\ SizeAfter(last'.v) = Size(last'.w)
          /\ last'.op = "VectorMove" => vec'[last'.w] = EmptyVector
          /\ last'.op = "MoveAssign" =>
                /\ vec'[last'.w].data_ = vec[last'.v].data_
                /\ SizeAfter(last'.w) = Size(last'.v)]_vars

\* C6, reached: a move assignment between two distinct non-empty Vectors.
C6_Witness ==
    /\ last.op = "MoveAssign" /\ last.v # last.w
    /\ Size(last.v) > 0 /\ Size(last.w) > 0
    /\ Elems(last.v) # Elems(last.w)

\* C7: after any run of PushBack calls on an empty Vector, Size() is the number
\* of values pushed and element i is the i-th pushed value.
C7_PushedInOrder ==
    /\ Size("a") = Len(pushed)
    /\ Elems("a") = pushed

\* C8: Emplace at index p adds one element at index p (constructed from the
\* argument), keeps the elements before p where they were and moves each
\* element at index i >= p to index i + 1, on every branch.
C8_EmplaceShiftsRight ==
    [][(EmplaceStep /\ last'.res = "ok")
       => /\ SizeAfter(last'.v) = Size(last'.v) + 1
          /\ BlkAfter(last'.v)[last'.n + 1] # Raw
          /\ last'.arg.kind # "ref" => BlkAfter(last'.v)[last'.n + 1] = last'.arg.x
          /\ \A i \in 1..Size(last'.v) :
                Blk(last'.v)[i] # Raw =>
                    BlkAfter(last'.v)[IF i <= last'.n THEN i ELSE i + 1] = Blk(last'.v)[i]]_vars

\* C8, reached: an element was inserted without reallocation between two
\* elements of different values.
C8_Witness ==
    /\ last.op = "Emplace" /\ last.res = "ok" /\ last.path = "middle"
    /\ last.n >= 1 /\ Size(last.v) >= 3
    /\ Elems(last.v)[last.n] \in Values
    /\ Elems(last.v)[last.n + 2] \in Values
    /\ Elems(last.v)[last.n] # Elems(last.v)[last.n + 2]

\* C9: Erase at index p < Size() takes exactly one element away: Size() drops
\* by 1, Capacity() and the storage stay, the elements before p stay where they
\* were and each element at index i > p is afterwards at index i - 1.
C9_EraseShiftsLeft ==
    [][(last'.op = "Erase" /\ last'.res = "ok")
       => /\ SizeAfter(last'.v) = Size(last'.v) - 1
          /\ vec'[last'.v].data_ = vec[last'.v].data_
          /\ \A i \in 1..last'.n : BlkAfter(last'.v)[i] = Blk(last'.v)[i]
          /\ \A i \in (last'.n + 2)..Size(last'.v) :
                Blk(last'.v)[i] # Raw => BlkAfter(last'.v)[i - 1] = Blk(last'.v)[i]]_vars

\* C9, reached: an element that is not the last was erased and two elements of
\* different values remain.
C9_Witness ==
    /\ last.op = "Erase" /\ last.res = "ok"
    /\ Size(last.v) >= 2 /\ last.n < Size(last.v)
    /\ Elems(last.v)[1] \in Values /\ Elems(last.v)[2] \in Values
    /\ Elems(last.v)[1] # Elems(last.v)[2]

\* C10: 0 <= Size() <= Capacity() in every state, also after a call that threw.
C10_SizeWithinCapacity ==
    \A v \in Vecs : 0 <= Size(v) /\ Size(v) <= Capacity(v)

\* C10, reached: a call on a non-empty Vector has thrown.
C10_Witness ==
    /\ last.res \in {"throw", "bad_alloc"}
    /\ Size(last.v) > 0 /\ Size(last.v) < Capacity(last.v)

\* C11: when operator new fails inside Reserve, a growing Resize, a growing
\* Emplace / Insert / PushBack or a copy assignment that needs more capacity,
\* the call ends with the allocation failure and the Vector's size, capacity,
\* storage and element values, and the whole heap, are as before the call.
C11_BadAllocKeepsAll ==
    [][(/\ last'.res = "bad_alloc"
        /\ last'.op \in {"Reserve", "Resize", "Emplace", "PushBack", "CopyAssign"})
       => /\ vec' = vec
          /\ heap' = heap]_vars

\* C11, reached: the allocation failed in a copy assignment into a non-empty
\* Vector whose capacity is too small for the source.
C11_Witness ==
    /\ last.res = "bad_alloc" /\ last.op = "CopyAssign"
    /\ Size(last.v) > 0 /\ Size(last.w) > Capacity(last.v)

\* C12: no call of PushBack, Reserve or a growing Resize leaves Capacity()
\* smaller than it was, however the call ends.
C12_CapacityNeverShrinks ==
    [][(\/ last'.op \in {"PushBack", "Reserve"}
        \/ last'.op = "Resize" /\ last'.n >= Size(last'.v))
       => CapacityAfter(last'.v) >= Capacity(last'.v)]_vars

\* C12, reached: a Reserve has grown the block of a Vector that has spare
\* capacity and elements.
C12_Witness ==
    /\ last.op = "Reserve" /\ last.res = "ok" /\ last.path = "realloc"
    /\ Size(last.v) >= 1 /\ Size(last.v) + 2 <= Capacity(last.v)

\* C13: a successful Emplace / PushBack on a Vector with Size() = Capacity()
\* makes the capacity max(1, 2 * old capacity); one on a Vector with
\* Size() < Capacity() leaves the capacity as it was.
C13_GrowthDoubles ==
    [][(EmplaceStep /\ last'.res = "ok")
       => CapacityAfter(last'.v) =
             (IF Size(last'.v) = Capacity(last'.v)
              THEN (IF 2 * Capacity(last'.v) > 1 THEN 2 * Capacity(last'.v) ELSE 1)
              ELSE Capacity(last'.v))]_vars

\* C13, reached: a PushBack on a full Vector of two elements has reallocated.
C13_Witness ==
    /\ last.op = "PushBack" /\ last.res = "ok" /\ last.path = "realloc"
    /\ Size(last.v) = 3 /\ Capacity(last.v) = 4

\* C14: a successful Reserve(n) with n <= Capacity() changes nothing (capacity,
\* size, storage address, elements); with n > Capacity() it makes the capacity
\* exactly n and leaves the size and every element value, in order, as before.
C14_ReserveExact ==
    [][(last'.op = "Reserve" /\ last'.res = "ok")
       => IF last'.n <= Capacity(last'.v)
          THEN vec' = vec /\ heap' = heap
          ELSE /\ CapacityAfter(last'.v) = last'.n
               /\ SizeAfter(last'.v) = Size(last'.v)
               /\ \A i \in 1..Size(last'.v) :
                     Blk(last'.v)[i] # Raw => BlkAfter(last'.v)[i] = Blk(last'.v)[i]]_vars

\* C14, reached: Reserve has moved two elements of different values into a
\* larger block.
C14_Witness ==
    /\ last.op = "Reserve" /\ last.res = "ok" /\ last.path = "realloc"
    /\ Size(last.v) >= 2
    /\ Elems(last.v)[1] \in Values /\ Elems(last.v)[Size(last.v)] \in Values
    /\ Elems(last.v)[1] # Elems(last.v)[Size(last.v)]

\* C15: a copy-constructed Vector has the size and the element values of its
\* source in a block of its own, and from then on no operation on one Vector
\* changes the size, the storage or an element of the other.
C15_CopyIsIndependent ==
    [][/\ (last'.op = "VectorCopy" /\ last'.res = "ok")
          => /\ SizeAfter(last'.v) = Size(last'.w)
             /\ \A i \in 1..Size(last'.w) :
                   Blk(last'.w)[i] # Raw => BlkAfter(last'.v)[i] = Blk(last'.w)[i]
             /\ Size(last'.w) > 0 => vec'[last'.v].data_.buffer_ # GetAddress(last'.w)
       /\ \A u \in Vecs :
             (u # last'.v /\ last'.op \notin {"idle", "Swap", "MoveAssign", "VectorMove"})
             => vec'[u] = vec[u] /\ BlkAfter(u) = Blk(u)]_vars

\* C15, reached: a Vector of two different elements was copy-constructed into a
\* block of its own.
C15_Witness ==
    /\ last.op = "VectorCopy" /\ last.res = "ok"
    /\ Size(last.v) >= 2
    /\ Elems(last.v)[1] \in Values /\ Elems(last.v)[2] \in Values
    /\ Elems(last.v)[1] # Elems(last.v)[2]
    /\ Elems(last.v) = Elems(last.w)
    /\ GetAddress(last.v) # GetAddress(last.w)

\* C16: every RawMemory move (move construction, move assignment) gives the
\* target the source's former address and capacity and leaves the source with
\* the null address and capacity 0, whatever the target held before.
C16_RawMoveEmptiesSource ==
    [][(last'.op \in {"RawMove", "RawMoveAssign"} /\ last'.v # last'.w)
       => /\ raw'[last'.v].buffer_ = raw[last'.w].buffer_
          /\ raw'[last'.v].capacity_ = raw[last'.w].capacity_
          /\ raw'[last'.w].buffer_ = NULL
          /\ raw'[last'.w].capacity_ = 0]_vars

\* C18: RawMemory(n) either ends with the allocation failure or owns a block of
\* n * sizeof(T) bytes and reports capacity n; never capacity n over less.
C18_RawCtorAllocatesAll ==
    [][(last'.op = "RawMemorySized" /\ last'.n # 0)
       => \/ last'.res = "bad_alloc" /\ raw' = raw /\ rawHeap' = rawHeap
          \/ /\ last'.res = "ok"
             /\ raw'[last'.v].capacity_ = last'.n
             /\ raw'[last'.v].buffer_ # NULL
             /\ rawHeap'[raw'[last'.v].buffer_] = last'.n * SizeOfT]_vars

\* C17: when an element copy throws in the in-place branch of copy assignment
\* (Capacity() >= rhs.Size()), the target stays structurally valid: its size and
\* storage are as before, hence Size() <= Capacity() and Size() is not yet
\* rhs.Size() unless it already was, and a target whose slots [0, Size()) held
\* elements and whose other slots held none still has exactly those slots
\* occupied.
C17_InPlaceThrowKeepsStructure ==
    [][(last'.op = "CopyAssign" /\ last'.path = "inplace" /\ last'.res = "throw")
       => /\ vec'[last'.v] = vec[last'.v]
          /\ SizeAfter(last'.v) <= CapacityAfter(last'.v)
          /\ (\A i \in 1..Capacity(last'.v) : (i <= Size(last'.v)) = (Blk(last'.v)[i] # Raw))
             => \A i \in 1..CapacityAfter(last'.v) :
                   (i <= SizeAfter(last'.v)) = (BlkAfter(last'.v)[i] # Raw)]_vars

\* C17, reached: the in-place copy assignment of two elements to a Vector of
\* one element has thrown.
C17_Witness ==
    /\ last.op = "CopyAssign" /\ last.path = "inplace" /\ last.res = "throw"
    /\ Size(last.v) = 1 /\ Size(last.w) = 2
    /\ Blk(last.v)[1] # Raw /\ Blk(last.v)[2] = Raw

\* C19: a successful copy assignment a = b between distinct Vectors leaves a
\* with the size and the element values of b and leaves b as it was; a keeps
\* its capacity and storage when its capacity was at least b.Size(), and gets
\* capacity b.Size() otherwise; a = a changes nothing.
C19_CopyAssignResult ==
    [][(last'.op = "CopyAssign" /\ last'.res = "ok")
       => IF last'.v = last'.w
          THEN vec' = vec /\ heap' = heap
          ELSE /\ SizeAfter(last'.v) = Size(last'.w)
               /\ \A i \in 1..Size(last'.w) :
                     Blk(last'.w)[i] # Raw => BlkAfter(last'.v)[i] = Blk(last'.w)[i]
               /\ vec'[last'.w] = vec[last'.w] /\ BlkAfter(last'.w) = Blk(last'.w)
               /\ IF Capacity(last'.v) >= Size(last'.w)
                  THEN vec'[last'.v].data_ = vec[last'.v].data_
                  ELSE CapacityAfter(last'.v) = Size(last'.w)]_vars

\* C19, reached: two different elements were copy-assigned in place over a
\* Vector of two elements.
C19_Witness ==
    /\ last.op = "CopyAssign" /\ last.res = "ok" /\ last.path = "inplace"
    /\ last.v # last.w
    /\ Size(last.v) = 2 /\ Elems(last.v) = Elems(last.w)
    /\ Elems(last.v)[1] \in Values /\ Elems(last.v)[2] \in Values
    /\ Elems(last.v)[1] # Elems(last.v)[2]

\* C20: when the argument of PushBack(const T&) or Insert(pos, const T&) is an
\* element v[i] of the same Vector, the element added has the value v[i] held
\* before the call and every element that was there keeps its value, on the
\* reallocating and the in-place branches and for every element type.
C20_AliasedArgument ==
    [][(/\ EmplaceStep /\ last'.res = "ok" /\ last'.arg.kind = "ref"
        /\ \A i \in 1..Size(last'.v) : Blk(last'.v)[i] # Raw)
       => /\ BlkAfter(last'.v)[last'.n + 1] = Blk(last'.v)[last'.arg.x + 1]
          /\ \A i \in 1..Size(last'.v) :
                BlkAfter(last'.v)[IF i <= last'.n THEN i ELSE i + 1] = Blk(last'.v)[i]]_vars

====
